---- MODULE Spec2Model ----
(***************************************************************************)
(* rpoco: reflection metadata (type_info, built once per record type by    *)
(* the RPOCO macro) and the shape-specialised visit<> templates that walk  *)
(* records, maps, vectors and pointers in both directions through one      *)
(* visitor interface.                                                      *)
(*                                                                         *)
(* SpecInit: threads calling rpoco_type_info_get (double-checked lock).    *)
(* Spec    : whole traversals (to_json / parse) of values of the test      *)
(*           program's record types.                                       *)
(***************************************************************************)
EXTENDS Integers, Sequences, FiniteSets, TLC

VARIABLES
  ti,          \* per record type: the function-local static rpoco::type_info
  init_mutex,  \* per record type: 0 when free, else the thread holding it
  builds,      \* per record type: how many times initfun has been entered
  pc,          \* per thread: position inside rpoco_type_info_get
  ty,          \* per thread: the record type whose registry it requests
  names,       \* per thread: local `names` of the init lambda
  idx,         \* per thread: `idx` of rpoco_type_info_expand
  path,        \* per thread: "none" | "fast" | "slow" (went through init())
  got,         \* per thread: what the returned registry showed to its reads
  obj,         \* the value a traversal is applied to: [F, val]
  pre,         \* obj as it was before the last traversal
  vis,         \* the visitor after the last traversal
  op           \* the last operation of the traversal part

vars == <<ti, init_mutex, builds, pc, ty, names, idx, path, got, obj, pre, vis, op>>
regVars == <<ti, init_mutex, builds, pc, ty, names, idx, path, got>>
travVars == <<obj, pre, vis, op>>

----------------------------------------------------------------------------
(* Bounds *)

NThreads == 2

\* most children of the object (items of the array) a parsed text holds
MaxKids == 2

\* most elements of a vector (entries of a map) before a traversal
MaxLen == 2

Threads == 1..NThreads

----------------------------------------------------------------------------
(* The record types of the test program.  A name is the sequence of its     *)
(* characters, as extract_macro_names cuts it out of the macro text.        *)

nX == <<"x">>
nA == <<"a">>
nSub == <<"s", "u", "b">>
nInts == <<"i", "n", "t", "s">>

RecTypes == {"Ser1", "Ser2", "Ser2P", "SerVI"}

\* #__VA_ARGS__ of each RPOCO(...) use
MacroText(T) ==
  CASE T = "Ser1"  -> <<"x">>
    [] T = "Ser2"  -> <<"a", ",", "s", "u", "b">>
    [] T = "Ser2P" -> <<"a", ",", "s", "u", "b">>
    [] T = "SerVI" -> <<"i", "n", "t", "s">>

\* the static type of each data member, in layout order
Layout(T) ==
  CASE T = "Ser1"  -> <<"int">>
    [] T = "Ser2"  -> <<"int", "Ser1">>
    [] T = "Ser2P" -> <<"int", "Ser1*">>
    [] T = "SerVI" -> <<"vector<int>">>

\* __VA_ARGS__ as members: the slot (offset from this) of each argument
MacroArgs(T) == [i \in 1..Len(Layout(T)) |-> i]

----------------------------------------------------------------------------
(* extract_macro_names *)

IsSep(c) == c = "," \/ c = " "

RECURSIVE SkipSeps(_, _)
SkipSeps(s, t) ==
  IF t <= Len(s) /\ IsSep(s[t]) THEN SkipSeps(s, t + 1) ELSE t

RECURSIVE ExtractLoop(_, _, _, _)
ExtractLoop(str, s, t, out) ==
  IF t > Len(str)
    THEN IF s # t THEN Append(out, SubSeq(str, s, t - 1)) ELSE out
    ELSE IF IsSep(str[t])
           THEN LET t2 == SkipSeps(str, t)
                IN  ExtractLoop(str, t2, t2, Append(out, SubSeq(str, s, t - 1)))
           ELSE ExtractLoop(str, s, t + 1, out)

extract_macro_names(str) ==
  LET t0 == SkipSeps(str, 1) IN ExtractLoop(str, t0, t0, <<>>)

----------------------------------------------------------------------------
(* member / field<F> / type_info *)

\* new rpoco::field<F>(name, off)
field(F, name, off) == [name |-> name, off |-> off, F |-> F]

\* what std::unordered_map::operator[] value-initialises: a null member*
NullMember == [name |-> <<>>, off |-> 0, F |-> "null"]

EmptyTypeInfo == [fields |-> <<>>, m_named_fields |-> <<>>, m_is_init |-> 0]

MapPut(m, k, x) == [j \in DOMAIN m \cup {k} |-> IF j = k THEN x ELSE m[j]]

size(r) == Len(r.fields)

has(r, id) == id \in DOMAIN r.m_named_fields

is_init(r) == r.m_is_init

push_back(r, fb) == [r EXCEPT !.fields = Append(@, fb)]

index_put(r, fb) == [r EXCEPT !.m_named_fields = MapPut(@, fb.name, fb)]

add(r, fb) == index_put(push_back(r, fb), fb)

store_init(r) == [r EXCEPT !.m_is_init = 1]

\* every field created under the first name: the index into names not advanced
ExpandFieldFirstName(T, nms, i) == field(Layout(T)[MacroArgs(T)[i]], nms[1], MacroArgs(T)[i])

\* the field rpoco_type_info_expand creates for argument idx
ExpandField(T, nms, i) == field(Layout(T)[MacroArgs(T)[i]], nms[i], MacroArgs(T)[i])

RECURSIVE rpoco_type_info_expand(_, _, _, _)
rpoco_type_info_expand(r, T, nms, i) ==
  IF i > Len(MacroArgs(T)) THEN r
  ELSE rpoco_type_info_expand(add(r, ExpandField(T, nms, i)), T, nms, i + 1)

\* the lambda handed to type_info::init
initfun(r, T) == rpoco_type_info_expand(r, T, extract_macro_names(MacroText(T)), 1)

\* (mutant) init without the second look at the flag under the lock
InitBuildsUnchecked(r) == TRUE

\* type_info::init, under the lock: if (!m_is_init.load())
InitBuilds(r) == is_init(r) = 0

\* type_info::init run by one thread without interruption

init(r, T) == IF InitBuilds(r) THEN store_init(initfun(r, T)) ELSE r

\* rpoco_type_info_get run by one thread without interruption
rpoco_type_info_get(r, T) == IF is_init(r) = 0 THEN init(r, T) ELSE r

----------------------------------------------------------------------------
(* rpoco_type_info_get, statement by statement, for concurrent threads *)

NoView == [size |-> -1, fields |-> <<>>, index |-> <<>>]

View(r) == [size |-> size(r), fields |-> r.fields, index |-> r.m_named_fields]

\* a thread (at the beginning of some traversal) asks for the registry of T
Call(t, T) ==
  /\ pc[t] = "idle"
  /\ pc' = [pc EXCEPT ![t] = "check"]
  /\ ty' = [ty EXCEPT ![t] = T]
  /\ path' = [path EXCEPT ![t] = "none"]
  /\ got' = [got EXCEPT ![t] = NoView]
  /\ UNCHANGED <<ti, init_mutex, builds, names, idx>>

\* if(!ti.is_init())
Check(t) ==
  /\ pc[t] = "check"
  /\ IF is_init(ti[ty[t]]) = 0
       THEN pc' = [pc EXCEPT ![t] = "lock"] /\ path' = [path EXCEPT ![t] = "slow"]
       ELSE pc' = [pc EXCEPT ![t] = "ret"] /\ path' = [path EXCEPT ![t] = "fast"]
  /\ UNCHANGED <<ti, init_mutex, builds, ty, names, idx, got>>

\* std::lock_guard<std::mutex> lock(init_mutex)
Lock(t) ==
  /\ pc[t] = "lock"
  /\ init_mutex[ty[t]] = 0
  /\ init_mutex' = [init_mutex EXCEPT ![ty[t]] = t]
  /\ pc' = [pc EXCEPT ![t] = "recheck"]
  /\ UNCHANGED <<ti, builds, ty, names, idx, path, got>>

\* (mutant) the flag is stored before initfun has added the members
RecheckStoreFirst(t) ==
  /\ pc[t] = "recheck"
  /\ IF InitBuilds(ti[ty[t]])
       THEN /\ pc' = [pc EXCEPT ![t] = "names"]
            /\ builds' = [builds EXCEPT ![ty[t]] = @ + 1]
            /\ ti' = [ti EXCEPT ![ty[t]] = store_init(@)]
       ELSE /\ pc' = [pc EXCEPT ![t] = "unlock"]
            /\ UNCHANGED <<builds, ti>>
  /\ UNCHANGED <<init_mutex, ty, names, idx, path, got>>

\* if (!m_is_init.load()) initfun(this)
Recheck(t) ==
  /\ pc[t] = "recheck"
  /\ IF InitBuilds(ti[ty[t]])
       THEN /\ pc' = [pc EXCEPT ![t] = "names"]
            /\ builds' = [builds EXCEPT ![ty[t]] = @ + 1]
       ELSE /\ pc' = [pc EXCEPT ![t] = "unlock"]
            /\ UNCHANGED builds
  /\ UNCHANGED <<ti, init_mutex, ty, names, idx, path, got>>

\* names = extract_macro_names(#__VA_ARGS__); rpoco_type_info_expand(ti,names,0,...)
ExtractNames(t) ==
  /\ pc[t] = "names"
  /\ names' = [names EXCEPT ![t] = extract_macro_names(MacroText(ty[t]))]
  /\ idx' = [idx EXCEPT ![t] = 1]
  /\ pc' = [pc EXCEPT ![t] = "expand"]
  /\ UNCHANGED <<ti, init_mutex, builds, ty, path, got>>

\* rpoco_type_info_expand: the empty overload, or add's fields.push_back(fb)
Expand(t) ==
  /\ pc[t] = "expand"
  /\ IF idx[t] > Len(MacroArgs(ty[t]))
       THEN /\ pc' = [pc EXCEPT ![t] = "store"]
            /\ UNCHANGED ti
       ELSE /\ ti' = [ti EXCEPT ![ty[t]] =
                        push_back(@, ExpandField(ty[t], names[t], idx[t]))]
            /\ pc' = [pc EXCEPT ![t] = "index"]
  /\ UNCHANGED <<init_mutex, builds, ty, names, idx, path, got>>

\* add's m_named_fields[fb->name()]=fb, then the recursive call with idx+1
Index(t) ==
  /\ pc[t] = "index"
  /\ ti' = [ti EXCEPT ![ty[t]] =
              index_put(@, ExpandField(ty[t], names[t], idx[t]))]
  /\ idx' = [idx EXCEPT ![t] = @ + 1]
  /\ pc' = [pc EXCEPT ![t] = "expand"]
  /\ UNCHANGED <<init_mutex, builds, ty, names, path, got>>

\* m_is_init.store(1)
Store(t) ==
  /\ pc[t] = "store"
  /\ ti' = [ti EXCEPT ![ty[t]] = store_init(@)]
  /\ pc' = [pc EXCEPT ![t] = "unlock"]
  /\ UNCHANGED <<init_mutex, builds, ty, names, idx, path, got>>

\* init_mutex locked by hand and left locked at the end of init
UnlockForgotten(t) ==
  /\ pc[t] = "unlock"
  /\ names' = [names EXCEPT ![t] = <<>>]
  /\ idx' = [idx EXCEPT ![t] = 0]
  /\ pc' = [pc EXCEPT ![t] = "ret"]
  /\ UNCHANGED <<ti, init_mutex, builds, ty, path, got>>

\* end of init: the lock_guard releases init_mutex, the lambda's locals are gone
Unlock(t) ==
  /\ pc[t] = "unlock"
  /\ init_mutex' = [init_mutex EXCEPT ![ty[t]] = 0]
  /\ names' = [names EXCEPT ![t] = <<>>]
  /\ idx' = [idx EXCEPT ![t] = 0]
  /\ pc' = [pc EXCEPT ![t] = "ret"]
  /\ UNCHANGED <<ti, builds, ty, path, got>>

\* return &ti; the caller then reads size(), has() and operator[] through it
Return(t) ==
  /\ pc[t] = "ret"
  /\ got' = [got EXCEPT ![t] = View(ti[ty[t]])]
  /\ pc' = [pc EXCEPT ![t] = "idle"]
  /\ UNCHANGED <<ti, init_mutex, builds, ty, names, idx, path>>

RegInit ==
  /\ ti = [T \in RecTypes |-> EmptyTypeInfo]
  /\ init_mutex = [T \in RecTypes |-> 0]
  /\ builds = [T \in RecTypes |-> 0]
  /\ pc = [t \in Threads |-> "idle"]
  /\ ty = [t \in Threads |-> "Ser1"]
  /\ names = [t \in Threads |-> <<>>]
  /\ idx = [t \in Threads |-> 0]
  /\ path = [t \in Threads |-> "none"]
  /\ got = [t \in Threads |-> NoView]

----------------------------------------------------------------------------
(* Shapes: the static types visit<> is specialised on *)

Kind(F) ==
  CASE F = "int" -> "int"
    [] F \in RecTypes -> "rec"
    [] F = "Ser1*" -> "ptr"
    [] F = "vector<int>" -> "vec"
    [] F = "map<string,int>" -> "map"
    [] F = "niltarget" -> "nil"

Elem(F) ==
  CASE F = "Ser1*" -> "Ser1"
    [] F = "vector<int>" -> "int"
    [] F = "map<string,int>" -> "int"

\* F(): the value a default-constructed F holds (int x=0; Ser1 *sub=0; empty containers)
RECURSIVE Fresh(_)
Fresh(F) ==
  CASE Kind(F) = "int" -> 0
    [] Kind(F) = "rec" -> [i \in 1..Len(Layout(F)) |-> Fresh(Layout(F)[i])]
    [] OTHER -> <<>>

----------------------------------------------------------------------------
(* visit_type and the units a visitor moves *)

vt_none == "none"
vt_error == "error"
vt_object == "object"
vt_array == "array"
vt_null == "null"
vt_bool == "bool"
vt_number == "number"
vt_string == "string"

Tok(t, k, s, i) == [t |-> t, k |-> k, s |-> s, i |-> i]
TStart(k) == Tok("start", k, <<>>, 0)
TEnd(k) == Tok("end", k, <<>>, 0)
TStr(s) == Tok("str", vt_string, s, 0)
TNum(i) == Tok("num", vt_number, <<>>, i)
TBool(i) == Tok("bool", vt_bool, <<>>, i)
TNull == Tok("null", vt_null, <<>>, 0)
TBad == Tok("bad", vt_error, <<>>, 0)

Ev(c, k, r) == [c |-> c, k |-> k, r |-> r]

----------------------------------------------------------------------------
(* The visitor: a writer appends units to out, a reader takes units from   *)
(* inp.  A reader that meets a unit it cannot read fails and reads no more. *)

Writer == [mode |-> "write", inp |-> <<>>, pos |-> 1, out |-> <<>>,
           failed |-> FALSE, log |-> <<>>]

Reader(toks) == [mode |-> "read", inp |-> toks, pos |-> 1, out |-> <<>>,
                 failed |-> FALSE, log |-> <<>>]

AtEnd(v) == v.pos > Len(v.inp)

Cur(v) == v.inp[v.pos]

Logged(v, e) == [v EXCEPT !.log = Append(@, e)]

Fail(v) == [v EXCEPT !.failed = TRUE]

Advance(v) == [v EXCEPT !.pos = @ + 1]

Emit(v, tok) == [v EXCEPT !.out = Append(@, tok)]

peek(v) ==
  IF v.mode = "write" THEN vt_none
  ELSE IF v.failed \/ AtEnd(v) THEN vt_error
  ELSE IF Cur(v).t = "end" THEN vt_error
  ELSE Cur(v).k

\* a leaf call: writes tok, or reads a unit of tok's kind; [x, v]
Leaf(v, call, tok, x) ==
  LET v1 == Logged(v, Ev(call, tok.k, FALSE)) IN
  IF v.mode = "write" THEN [x |-> x, v |-> Emit(v1, tok)]
  ELSE IF v.failed THEN [x |-> x, v |-> v1]
  ELSE IF peek(v) = tok.k
         THEN [x |-> IF tok.t = "str" THEN Cur(v).s ELSE Cur(v).i, v |-> Advance(v1)]
         ELSE [x |-> x, v |-> Fail(v1)]

visit_null(v) == Leaf(v, "visit_null", TNull, 0).v

visit_bool(v, b) == Leaf(v, "visit_bool", TBool(b), b)

visit_int(v, x) == Leaf(v, "visit_int", TNum(x), x)

visit_double(v, x) == Leaf(v, "visit_double", TNum(x), x)

visit_string(v, k) == Leaf(v, "visit_string", TStr(k), k)

produce_start(v, vt) == Emit(Logged(v, Ev("produce_start", vt, FALSE)), TStart(vt))

produce_end(v, vt) == Emit(Logged(v, Ev("produce_end", vt, FALSE)), TEnd(vt))

----------------------------------------------------------------------------
(* The state a traversal threads through its calls:                        *)
(*   v the visitor, ti the registries, allocs the number of `new F()`,      *)
(*   d / maxd the current and the deepest nesting of visit<> calls,         *)
(*   crash: a null member* was dereferenced.                                *)

Trav(v, regs) == [v |-> v, ti |-> regs, allocs |-> 0, d |-> 0, maxd |-> 0,
                  crash |-> FALSE]

Res(val, st) == [val |-> val, st |-> st]

WithV(st, v) == [st EXCEPT !.v = v]

Max(a, b) == IF a >= b THEN a ELSE b

\* std::map<std::string,F> iterates its keys in lexicographic order
Alphabet == <<"a", "b", "i", "n", "s", "t", "u", "x", "z">>

Rank(c) == CHOOSE i \in 1..Len(Alphabet) : Alphabet[i] = c

RECURSIVE StrLess(_, _)
StrLess(a, b) ==
  IF b = <<>> THEN FALSE
  ELSE IF a = <<>> THEN TRUE
  ELSE IF Rank(a[1]) # Rank(b[1]) THEN Rank(a[1]) < Rank(b[1])
  ELSE StrLess(Tail(a), Tail(b))

RECURSIVE SortedKeys(_)
SortedKeys(S) ==
  IF S = {} THEN <<>>
  ELSE LET m == CHOOSE k \in S : \A j \in S \ {k} : StrLess(k, j)
       IN  <<m>> \o SortedKeys(S \ {m})

\* member*& operator[](std::string id): inserts a null member* when id is absent
named(r, id) ==
  IF id \in DOMAIN r.m_named_fields
    THEN [r |-> r, m |-> r.m_named_fields[id]]
    ELSE [r |-> [r EXCEPT !.m_named_fields = MapPut(@, id, NullMember)],
          m |-> NullMember]

RECURSIVE visit(_, _, _)

\* the member visited as a copy: what is read does not reach the record
field_visit_by_value(m, f, st) ==
  IF m = NullMember THEN Res(f, [st EXCEPT !.crash = TRUE])
  ELSE LET kept(r) == Res(f, r.st)
       IN  kept(visit(m.F, f[m.off], st))

\* field<F>::visit(v, p): visit<F> on the member at p + m_offset
field_visit(m, f, st) ==
  IF m = NullMember THEN Res(f, [st EXCEPT !.crash = TRUE])
  ELSE LET stored(r) == Res([f EXCEPT ![m.off] = r.val], r.st)
       IN  stored(visit(m.F, f[m.off], st))

\* the callback without the test: every name goes to operator[]
MemberExistsUnchecked(fp, n) == TRUE

\* the test of the record callback: does the member to consume exist?
MemberExists(fp, n) == has(fp, n)

\* the callback visit<F> hands to consume
record_cb(F, n, f, st) ==
  IF ~ MemberExists(st.ti[F], n)
    THEN LET dropped(r) == Res(f, r.st) IN dropped(visit("niltarget", <<>>, st))
    ELSE LET g == named(st.ti[F], n)
         IN  field_visit(g.m, f, [st EXCEPT !.ti[F] = g.r])

\* the callback visit<std::map<std::string,F>> hands to consume
map_cb(F, x, mp, st) ==
  LET mp1 == IF x \in DOMAIN mp THEN mp ELSE MapPut(mp, x, Fresh(Elem(F)))
      stored(r) == Res([mp1 EXCEPT ![x] = r.val], r.st)
  IN  stored(visit(Elem(F), mp1[x], st))

\* the new element put before the elements the vector holds
vector_cb_at_front(F, x, vp, st) ==
  LET vp1 == <<Fresh(Elem(F))>> \o vp
      stored(r) == Res([vp1 EXCEPT ![1] = r.val], r.st)
  IN  stored(visit(Elem(F), vp1[1], st))

\* the new element visited as a copy: what is read does not reach the vector
vector_cb_by_value(F, x, vp, st) ==
  LET vp1 == Append(vp, Fresh(Elem(F)))
      kept(r) == Res(vp1, r.st)
  IN  kept(visit(Elem(F), vp1[Len(vp1)], st))

\* the callback visit<std::vector<F>> hands to consume
vector_cb(F, x, vp, st) ==
  LET vp1 == Append(vp, Fresh(Elem(F)))
      stored(r) == Res([vp1 EXCEPT ![Len(vp1)] = r.val], r.st)
  IN  stored(visit(Elem(F), vp1[Len(vp1)], st))

\* a callback that leaves the child of an unknown composite unread
niltarget_cb_unread(propname, nt, st) == Res(nt, st)

\* the callback visit<niltarget> hands to consume
niltarget_cb(propname, nt, st) ==
  LET dropped(r) == Res(nt, r.st) IN dropped(visit("niltarget", <<>>, st))

ApplyCb(cb, n, tgt, st) ==
  CASE cb.c = "record" -> record_cb(cb.F, n, tgt, st)
    [] cb.c = "map" -> map_cb(cb.F, n, tgt, st)
    [] cb.c = "vector" -> vector_cb(cb.F, n, tgt, st)
    [] cb.c = "niltarget" -> niltarget_cb(n, tgt, st)

\* a reading visitor inside a composite: one callback per discovered child,
\* in source order, until the composite's end; a child of an object is its
\* name and then its value, a callback that reads nothing is a failure
RECURSIVE ReadChildren(_, _, _, _)
ReadChildren(st, vt, cb, tgt) ==
  LET v == st.v
      isKey == vt = vt_object /\ Cur(v).t = "str"
      next(r) == IF r.st.v.pos = v.pos /\ ~ r.st.v.failed
                   THEN Res(r.val, WithV(r.st, Fail(r.st.v)))
                   ELSE ReadChildren(r.st, vt, cb, r.val)
  IN
  IF v.failed \/ st.crash THEN Res(tgt, st)
  ELSE IF AtEnd(v) THEN Res(tgt, WithV(st, Fail(v)))
  ELSE IF Cur(v) = TEnd(vt) THEN Res(tgt, WithV(st, Advance(v)))
  ELSE IF vt = vt_object /\ ~ isKey THEN Res(tgt, WithV(st, Fail(v)))
  ELSE next(ApplyCb(cb, IF isKey THEN Cur(v).s ELSE <<>>, tgt,
                    IF isKey THEN WithV(st, Advance(v)) ELSE st))

\* bool consume(vt, out): [r, val, st]
consume(st, vt, cb, tgt) ==
  LET v1 == Logged(st.v, Ev("consume", vt, st.v.mode = "read"))
      read(l) == [r |-> TRUE, val |-> l.val, st |-> l.st]
  IN
  IF st.v.mode = "write" THEN [r |-> FALSE, val |-> tgt, st |-> WithV(st, v1)]
  ELSE IF v1.failed THEN [r |-> TRUE, val |-> tgt, st |-> WithV(st, v1)]
  ELSE IF peek(v1) # vt THEN [r |-> TRUE, val |-> tgt, st |-> WithV(st, Fail(v1))]
  ELSE read(ReadChildren(WithV(st, Advance(v1)), vt, cb, tgt))

----------------------------------------------------------------------------
(* visit<F> and its specialisations *)

Started(st, vt) == WithV(st, produce_start(st.v, vt))

Ended(st, vt) == WithV(st, produce_end(st.v, vt))

\* the members produced from the last declared to the first
RECURSIVE ProduceMembersBackwards(_, _, _, _)
ProduceMembersBackwards(F, f, st, i) ==
  IF i > size(st.ti[F]) THEN Res(f, st)
  ELSE LET m == st.ti[F].fields[size(st.ti[F]) + 1 - i]
           nm == visit_string(st.v, m.name)
           next(r) == ProduceMembersBackwards(F, r.val, r.st, i + 1)
       IN  next(field_visit(m, f, WithV(st, nm.v)))

\* for (int i=0;i<fp->size();i++) { v.visit((*fp)[i]->name()); (*fp)[i]->visit(v,&f); }
RECURSIVE ProduceMembers(_, _, _, _)
ProduceMembers(F, f, st, i) ==
  IF i > size(st.ti[F]) THEN Res(f, st)
  ELSE LET m == st.ti[F].fields[i]
           nm == visit_string(st.v, m.name)
           st1 == [st EXCEPT !.v = nm.v, !.ti[F].fields[i].name = nm.x]
           next(r) == ProduceMembers(F, r.val, r.st, i + 1)
       IN  next(field_visit(m, f, st1))

\* a record that takes what was read only when the whole read succeeded
visit_record_all_or_nothing(F, f, st) ==
  LET st1 == [st EXCEPT !.ti[F] = rpoco_type_info_get(@, F)]
      close(p) == Res(p.val, Ended(p.st, vt_object))
      after(c) == IF c.r THEN Res(IF c.st.v.failed THEN f ELSE c.val, c.st)
                  ELSE close(ProduceMembers(F, f, Started(c.st, vt_object), 1))
  IN  after(consume(st1, vt_object, [c |-> "record", F |-> F], f))

visit_record(F, f, st) ==
  LET st1 == [st EXCEPT !.ti[F] = rpoco_type_info_get(@, F)]
      close(p) == Res(p.val, Ended(p.st, vt_object))
      after(c) == IF c.r THEN Res(c.val, c.st)
                  ELSE close(ProduceMembers(F, f, Started(c.st, vt_object), 1))
  IN  after(consume(st1, vt_object, [c |-> "record", F |-> F], f))

\* for (std::pair<std::string,F> p:mp): each entry is visited as a copy
RECURSIVE ProduceEntries(_, _, _, _)
ProduceEntries(F, mp, keys, st) ==
  IF keys = <<>> THEN Res(mp, st)
  ELSE LET k == visit_string(st.v, Head(keys))
           next(r) == ProduceEntries(F, mp, Tail(keys), r.st)
       IN  next(visit(Elem(F), mp[Head(keys)], WithV(st, k.v)))

visit_map(F, mp, st) ==
  LET close(p) == Res(p.val, Ended(p.st, vt_object))
      after(c) == IF c.r THEN Res(c.val, c.st)
                  ELSE close(ProduceEntries(F, mp, SortedKeys(DOMAIN mp),
                                            Started(c.st, vt_object)))
  IN  after(consume(st, vt_object, [c |-> "map", F |-> F], mp))

\* a discard sink that reads scalars only
visit_niltarget_scalars(nt, st) ==
  LET vtn == peek(st.v)
  IN
  CASE vtn = vt_null -> Res(nt, WithV(st, visit_null(st.v)))
    [] vtn = vt_number -> Res(nt, WithV(st, visit_double(st.v, 0).v))
    [] vtn = vt_bool -> Res(nt, WithV(st, visit_bool(st.v, 0).v))
    [] vtn = vt_string -> Res(nt, WithV(st, visit_string(st.v, <<>>).v))
    [] OTHER -> Res(nt, st)

visit_niltarget(nt, st) ==
  LET vtn == peek(st.v)
      dropped(c) == Res(nt, c.st)
  IN
  CASE vtn = vt_null -> Res(nt, WithV(st, visit_null(st.v)))
    [] vtn = vt_number -> Res(nt, WithV(st, visit_double(st.v, 0).v))
    [] vtn = vt_bool -> Res(nt, WithV(st, visit_bool(st.v, 0).v))
    [] vtn = vt_string -> Res(nt, WithV(st, visit_string(st.v, <<>>).v))
    [] vtn \in {vt_array, vt_object} ->
         dropped(consume(st, vtn, [c |-> "niltarget"], nt))
    [] OTHER -> Res(nt, st)

\* a loop over the elements that is left after the first element
RECURSIVE ProduceElementsFirstOnly(_, _, _, _)
ProduceElementsFirstOnly(F, vp, st, i) ==
  IF i > Len(vp) \/ i > 1 THEN Res(vp, st)
  ELSE LET next(r) == ProduceElementsFirstOnly(F, [vp EXCEPT ![i] = r.val], r.st, i + 1)
       IN  next(visit(Elem(F), vp[i], st))

\* for (F &f:vp) rpoco::visit<F>(v,f);
RECURSIVE ProduceElements(_, _, _, _)
ProduceElements(F, vp, st, i) ==
  IF i > Len(vp) THEN Res(vp, st)
  ELSE LET next(r) == ProduceElements(F, [vp EXCEPT ![i] = r.val], r.st, i + 1)
       IN  next(visit(Elem(F), vp[i], st))

\* an array closed as an object
visit_vector_closed_as_object(F, vp, st) ==
  LET close(p) == Res(p.val, Ended(p.st, vt_object))
      after(c) == IF c.r THEN Res(c.val, c.st)
                  ELSE close(ProduceElements(F, vp, Started(c.st, vt_array), 1))
  IN  after(consume(st, vt_array, [c |-> "vector", F |-> F], vp))

visit_vector(F, vp, st) ==
  LET close(p) == Res(p.val, Ended(p.st, vt_array))
      after(c) == IF c.r THEN Res(c.val, c.st)
                  ELSE close(ProduceElements(F, vp, Started(c.st, vt_array), 1))
  IN  after(consume(st, vt_array, [c |-> "vector", F |-> F], vp))

\* an instance made unless the next unit is null: the writer's vt_none not tested
NeedsNewUnlessNull(v, fp) == peek(v) # vt_null /\ fp = <<>>

\* an instance made whenever none is held, whatever the next unit is
NeedsNewWheneverUnset(v, fp) == fp = <<>>

\* if (v.peek()!=vt_null && v.peek()!=vt_none && !fp)
NeedsNew(v, fp) == peek(v) # vt_null /\ peek(v) # vt_none /\ fp = <<>>

\* a pointer that lets go of what it holds when the next unit is null
visit_ptr_null_clears(F, fp, st) ==
  LET new == NeedsNew(st.v, fp)
      fp1 == IF new THEN <<Fresh(Elem(F))>>
             ELSE IF peek(st.v) = vt_null THEN <<>> ELSE fp
      st1 == IF new THEN [st EXCEPT !.allocs = @ + 1] ELSE st
      held(r) == Res(<<r.val>>, r.st)
  IN  IF fp1 # <<>>
        THEN held(visit(Elem(F), fp1[1], st1))
        ELSE Res(fp1, WithV(st1, visit_null(st1.v)))

\* visit<F*>, visit<std::shared_ptr<F>>, visit<std::unique_ptr<F>>:
\* a pointer is <<>> when null and <<pointee>> otherwise
visit_ptr(F, fp, st) ==
  LET new == NeedsNew(st.v, fp)
      fp1 == IF new THEN <<Fresh(Elem(F))>> ELSE fp
      st1 == IF new THEN [st EXCEPT !.allocs = @ + 1] ELSE st
      held(r) == Res(<<r.val>>, r.st)
  IN  IF fp1 # <<>>
        THEN held(visit(Elem(F), fp1[1], st1))
        ELSE Res(fp1, WithV(st1, visit_null(st1.v)))

visit_leaf_int(ip, st) ==
  LET r == visit_int(st.v, ip) IN Res(r.x, WithV(st, r.v))

\* template resolution, with the nesting of visit<> calls counted
visit(F, val, st) ==
  LET st1 == [st EXCEPT !.d = @ + 1, !.maxd = Max(@, st.d + 1),
                        !.v = Logged(@, Ev("visit", Kind(F), FALSE))]
      leave(r) == Res(r.val, [r.st EXCEPT !.d = @ - 1,
                                          !.v = Logged(@, Ev("return", Kind(F), FALSE))])
  IN  leave(CASE Kind(F) = "rec" -> visit_record(F, val, st1)
              [] Kind(F) = "map" -> visit_map(F, val, st1)
              [] Kind(F) = "vec" -> visit_vector(F, val, st1)
              [] Kind(F) = "ptr" -> visit_ptr(F, val, st1)
              [] Kind(F) = "nil" -> visit_niltarget(val, st1)
              [] Kind(F) = "int" -> visit_leaf_int(val, st1))

----------------------------------------------------------------------------
(* The values the test program's members can hold before a traversal *)

RootShapes == RecTypes \cup {"map<string,int>"}

OldInts == {0, 7}

MapKeys == {nA, nX}

RECURSIVE SeqsUpTo(_, _)
SeqsUpTo(S, n) ==
  IF n = 0 THEN {<<>>}
  ELSE LET shorter == SeqsUpTo(S, n - 1)
       IN  shorter \cup {Append(q, e) : q \in {w \in shorter : Len(w) = n - 1}, e \in S}

RECURSIVE Values(_)
RECURSIVE Tuples(_)
Tuples(L) ==
  IF L = <<>> THEN {<<>>}
  ELSE {<<h>> \o t : h \in Values(Head(L)), t \in Tuples(Tail(L))}

Values(F) ==
  CASE Kind(F) = "int" -> OldInts
    [] Kind(F) = "rec" -> Tuples(Layout(F))
    [] Kind(F) = "ptr" -> {<<>>} \cup {<<x>> : x \in Values(Elem(F))}
    [] Kind(F) = "vec" -> SeqsUpTo(Values(Elem(F)), MaxLen)
    [] Kind(F) = "map" ->
         UNION {[K -> Values(Elem(F))] : K \in {K \in SUBSET MapKeys : Cardinality(K) <= MaxLen}}

----------------------------------------------------------------------------
(* The texts a reading visitor is given, as the units it will discover *)

RECURSIVE Concat(_)
Concat(ss) == IF ss = <<>> THEN <<>> ELSE Head(ss) \o Concat(Tail(ss))

UNum(i) == <<TNum(i)>>
UStr(s) == <<TStr(s)>>
UBool(i) == <<TBool(i)>>
UNull == <<TNull>>
UBad == <<TBad>>
Child(n, u) == <<TStr(n)>> \o u
UObj(kids) == <<TStart(vt_object)>> \o Concat(kids) \o <<TEnd(vt_object)>>
UArr(items) == <<TStart(vt_array)>> \o Concat(items) \o <<TEnd(vt_array)>>

InInts == {1, 2}

nZz == <<"z", "z">>

\* values of a name no type declares: a scalar, and an object and an array
\* that nest every kind and reuse declared names
UnkObj ==
  UObj(<<Child(nX, UNum(2)),
         Child(nZz, UArr(<<UNull, UObj(<<Child(nA, UBool(1))>>)>>))>>)

UnkArr ==
  UArr(<<UObj(<<Child(nSub, UNull)>>), UStr(nA), UArr(<<>>)>>)

UnknownUnits == {UNum(1), UnkObj, UnkArr}

DeclaredNames(F) == extract_macro_names(MacroText(F))

\* 1, 2, 1, ... : the first n numbers of an array text
RECURSIVE NumItems(_)
NumItems(n) ==
  IF n = 0 THEN <<>> ELSE Append(NumItems(n - 1), UNum(IF n % 2 = 1 THEN 1 ELSE 2))

RECURSIVE GoodUnits(_)
RECURSIVE Children(_, _)

\* the children an object text for record type F may hold: declared names
\* with a value of the member's shape, the undeclared name zz with any value,
\* and (top level only) a child whose value cannot be read
Children(F, top) ==
  UNION {{Child(DeclaredNames(F)[i], u) :
             u \in GoodUnits(Layout(F)[MacroArgs(F)[i]]) \cup (IF top THEN {UBad} ELSE {})}
          : i \in 1..Len(MacroArgs(F))}
  \cup {Child(nZz, u) : u \in UnknownUnits \cup (IF top THEN {UBad} ELSE {})}

GoodUnits(F) ==
  CASE Kind(F) = "int" -> {UNum(i) : i \in InInts}
    [] Kind(F) = "rec" -> {UObj(ks) : ks \in SeqsUpTo(Children(F, FALSE), 1)}
    [] Kind(F) = "ptr" -> {UNull} \cup GoodUnits(Elem(F))
    [] Kind(F) = "vec" -> {UArr(NumItems(n)) : n \in 0..MaxKids}
    [] Kind(F) = "map" -> {UObj(<<>>)}

\* the texts parse is given for a root of shape F: the children of an object
Texts(F) ==
  IF Kind(F) = "rec"
    THEN SeqsUpTo(Children(F, TRUE), MaxKids)
    ELSE SeqsUpTo({Child(k, u) : k \in MapKeys,
                                 u \in GoodUnits(Elem(F)) \cup {UBad}}, MaxKids)

----------------------------------------------------------------------------
(* The traversal part: a caller sets up a value, then writes it out with a  *)
(* writing visitor (to_json) and reads a text into it with a reading        *)
(* visitor (parse); a written text may be read back into a fresh value.     *)

NoObj == [F |-> "none", val |-> <<>>]

\* what a traversal leaves behind: the visitor, the counts, and for the
\* record: the children of the text it read and the registries built before it
Outcome(st, text, before) ==
  [v |-> st.v, allocs |-> st.allocs, maxd |-> st.maxd, crash |-> st.crash,
   text |-> text, before |-> before]

NoOutcome == Outcome(Trav(Writer, <<>>), <<>>, {})

Built == {T \in RecTypes : is_init(ti[T]) = 1}

\* Ser1 s1; s1.x=1; ... : a value of a root shape, its members assigned
Assign(F, val) ==
  /\ op = "none"
  /\ obj' = [F |-> F, val |-> val]
  /\ pre' = NoObj
  /\ vis' = NoOutcome
  /\ op' = "set"
  /\ UNCHANGED regVars

\* to_json(&obj): visit<F> with a writing visitor
ToJson ==
  /\ op \in {"set", "reparse"}
  /\ \E r \in {visit(obj.F, obj.val, Trav(Writer, ti))} :
       /\ obj' = [obj EXCEPT !.val = r.val]
       /\ vis' = Outcome(r.st, <<>>, Built)
       /\ ti' = r.st.ti
  /\ pre' = obj
  /\ op' = "to_json"
  /\ UNCHANGED <<init_mutex, builds, pc, ty, names, idx, path, got>>

\* parse(text, obj): visit<F> with a visitor reading the object text of kids
Parse(kids) ==
  /\ \E r \in {visit(obj.F, obj.val, Trav(Reader(UObj(kids)), ti))} :
       /\ obj' = [obj EXCEPT !.val = r.val]
       /\ vis' = Outcome(r.st, kids, Built)
       /\ ti' = r.st.ti
  /\ pre' = obj
  /\ op' = "parse"
  /\ UNCHANGED <<init_mutex, builds, pc, ty, names, idx, path, got>>

\* Ser1 d1; parse(s1str, d1): the text just written, read into a fresh value
Reparse ==
  /\ op = "to_json"
  /\ \E r \in {visit(obj.F, Fresh(obj.F), Trav(Reader(vis.v.out), ti))} :
       /\ obj' = [obj EXCEPT !.val = r.val]
       /\ vis' = Outcome(r.st, <<>>, Built)
       /\ ti' = r.st.ti
  /\ pre' = obj
  /\ op' = "reparse"
  /\ UNCHANGED <<init_mutex, builds, pc, ty, names, idx, path, got>>

TravInit ==
  /\ obj = NoObj
  /\ pre = NoObj
  /\ vis = NoOutcome
  /\ op = "none"

Init == RegInit /\ TravInit

Next ==
  \/ \E F \in RootShapes : \E val \in Values(F) : Assign(F, val)
  \/ ToJson
  \/ op \in {"set", "to_json"} /\ \E kids \in Texts(obj.F) : Parse(kids)
  \/ Reparse

Spec == Init /\ [][Next]_vars

NextInit ==
  /\ \E t \in Threads :
       \/ \E T \in RecTypes : Call(t, T)
       \/ Check(t)
       \/ Lock(t)
       \/ Recheck(t)
       \/ ExtractNames(t)
       \/ Expand(t)
       \/ Index(t)
       \/ Store(t)
       \/ Unlock(t)
       \/ Return(t)
  /\ UNCHANGED travVars

SpecInit == Init /\ [][NextInit]_vars

\* a step of thread t inside rpoco_type_info_get
Step(t) ==
  \/ Check(t)
  \/ Lock(t)
  \/ Recheck(t)
  \/ ExtractNames(t)
  \/ Expand(t)
  \/ Index(t)
  \/ Store(t)
  \/ Unlock(t)
  \/ Return(t)

\* the types the threads of the fair specification ask for: two types give
\* threads that meet at one lock and threads that use different locks
LiveTypes == {"Ser1", "Ser2"}

NextFair ==
  /\ \E t \in Threads :
       \/ \E T \in LiveTypes : Call(t, T)
       \/ Step(t)
  /\ UNCHANGED travVars

\* the threads under a scheduler that does not leave a thread that can run
\* waiting for ever
SpecInitFair ==
  Init /\ [][NextFair]_vars /\ \A t \in Threads : WF_vars(Step(t) /\ UNCHANGED travVars)

----------------------------------------------------------------------------
(* Claims about the registry (SpecInit) *)

Returned(t) == got[t] # NoView

\* the table a complete build of T's declaration holds
DeclaredFields(T) ==
  [i \in 1..Len(MacroArgs(T)) |-> ExpandField(T, DeclaredNames(T), i)]

DeclaredIndex(T) ==
  [n \in {DeclaredNames(T)[i] : i \in 1..Len(MacroArgs(T))} |->
     (CHOOSE i \in 1..Len(MacroArgs(T)) : DeclaredNames(T)[i] = n)]

IsComplete(fields, index, T) ==
  /\ fields = DeclaredFields(T)
  /\ DOMAIN index = DOMAIN DeclaredIndex(T)
  /\ \A n \in DOMAIN index : index[n] = fields[DeclaredIndex(T)[n]]

\* C1: however the threads that request one type's registry interleave, the
\* build function runs at most once for the type, exactly once when any
\* thread has got the registry; the table then holds each declared member
\* once and every thread is shown the same table.
C1_BuildOnce ==
  \A T \in RecTypes :
    /\ builds[T] <= 1
    /\ \A t \in Threads :
         (Returned(t) /\ ty[t] = T) =>
           /\ builds[T] = 1
           /\ got[t].size = Len(MacroArgs(T))
           /\ IsComplete(got[t].fields, got[t].index, T)
    /\ \A t1, t2 \in Threads :
         (Returned(t1) /\ Returned(t2) /\ ty[t1] = T /\ ty[t2] = T) => got[t1] = got[t2]

\* two threads both found the flag unset, both went through init(), both returned
C1_Witness ==
  \E t1, t2 \in Threads :
    /\ t1 # t2
    /\ ty[t1] = "Ser2" /\ ty[t2] = "Ser2"
    /\ path[t1] = "slow" /\ path[t2] = "slow"
    /\ Returned(t1) /\ Returned(t2)
    /\ builds["Ser2"] = 1

\* C2: a thread that is about to return from rpoco_type_info_get, or has
\* returned, finds every declared member in the ordered list and in the name
\* index; the built flag is never set on a table that lacks a member.
C2_NeverPartial ==
  /\ \A T \in RecTypes :
       is_init(ti[T]) = 1 => IsComplete(ti[T].fields, ti[T].m_named_fields, T)
  /\ \A t \in Threads :
       /\ pc[t] = "ret" =>
            /\ is_init(ti[ty[t]]) = 1
            /\ size(ti[ty[t]]) = Len(MacroArgs(ty[t]))
            /\ \A i \in 1..Len(MacroArgs(ty[t])) : has(ti[ty[t]], DeclaredNames(ty[t])[i])
       /\ Returned(t) =>
            /\ got[t].size = Len(MacroArgs(ty[t]))
            /\ \A i \in 1..Len(MacroArgs(ty[t])) : DeclaredNames(ty[t])[i] \in DOMAIN got[t].index

\* a thread returned on the fast path (no lock taken) a two-member table
\* while another thread is still inside rpoco_type_info_get for the same type
C2_Witness ==
  \E t1, t2 \in Threads :
    /\ t1 # t2
    /\ ty[t1] = "Ser2P" /\ ty[t2] = "Ser2P"
    /\ path[t1] = "fast" /\ Returned(t1) /\ got[t1].size = 2
    /\ pc[t2] \in {"unlock", "ret"}

----------------------------------------------------------------------------
(* Claims about traversals (Spec) *)

\* the text of a value, written from the declaration alone: a record is an
\* object of its declared names in declaration order, each followed by the
\* text of the member it names
RECURSIVE Json(_, _)
Json(F, val) ==
  CASE Kind(F) = "int" -> UNum(val)
    [] Kind(F) = "rec" ->
         UObj([i \in 1..Len(MacroArgs(F)) |->
                 Child(DeclaredNames(F)[i],
                       Json(Layout(F)[MacroArgs(F)[i]], val[MacroArgs(F)[i]]))])
    [] Kind(F) = "ptr" -> IF val = <<>> THEN UNull ELSE Json(Elem(F), val[1])
    [] Kind(F) = "vec" -> UArr([i \in 1..Len(val) |-> Json(Elem(F), val[i])])
    [] Kind(F) = "map" ->
         UObj([i \in 1..Cardinality(DOMAIN val) |->
                 Child(SortedKeys(DOMAIN val)[i],
                       Json(Elem(F), val[SortedKeys(DOMAIN val)[i]]))])

\* the calls of name c a visitor received
Calls(v, c) == SelectSeq(v.log, LAMBDA e : e.c = c)

\* C3: a record with N declared members written by a writing visitor comes
\* out as one produce_start(object), then N children in declaration order,
\* each the member's name followed by what the traversal of the member's
\* value writes, then one produce_end(object); the name index plays no part.
C3_DeclarationOrder ==
  (op = "to_json" /\ Kind(obj.F) = "rec") =>
    /\ vis.v.out = Json(obj.F, pre.val)
    /\ Head(vis.v.out) = TStart(vt_object)
    /\ vis.v.out[Len(vis.v.out)] = TEnd(vt_object)
    /\ Len(Calls(vis.v, "visit_string")) >= Len(MacroArgs(obj.F))

\* a record of two members, the second itself a record, has been written
C3_Witness ==
  /\ op = "to_json"
  /\ obj.F = "Ser2"
  /\ pre.val = <<7, <<0>>>>
  /\ Len(vis.v.out) = 9

\* the children of an object text whose name F declares
IsDeclared(F, kid) == \E i \in 1..Len(MacroArgs(F)) : kid[1] = TStr(DeclaredNames(F)[i])

Known(F, kids) == SelectSeq(kids, LAMBDA kid : IsDeclared(F, kid))

Readable(toks) == \A i \in 1..Len(toks) : toks[i] # TBad

\* what visit<F> leaves when it reads the object text of kids into val
ReadInto(F, val, kids) == visit(F, val, Trav(Reader(UObj(kids)), ti))

\* C4: an object text read into a record may hold children under names the
\* record does not declare, each a scalar, an object or an array: the record
\* and the success of the read are those of the same text without these
\* children, a read that succeeds has read the whole text, and a text of
\* such children alone is read without failure and changes nothing.
C4_UnknownFieldsDropped ==
  (/\ op = "parse"
   /\ Kind(obj.F) = "rec"
   /\ \A i \in 1..Len(vis.text) :
        ~ IsDeclared(obj.F, vis.text[i]) => Readable(vis.text[i])) =>
    /\ obj.val = ReadInto(obj.F, pre.val, Known(obj.F, vis.text)).val
    /\ vis.v.failed = ReadInto(obj.F, pre.val, Known(obj.F, vis.text)).st.v.failed
    /\ ~ vis.crash
    /\ ~ vis.v.failed => vis.v.pos = Len(vis.v.inp) + 1
    /\ Known(obj.F, vis.text) = <<>> => (~ vis.v.failed /\ obj.val = pre.val)

\* {"zz": {"x":2, "zz":[null,{"a":true}]}, "a": 1} read into a Ser2 whose a
\* was 7: the read succeeded and a is 1
C4_Witness ==
  /\ op = "parse"
  /\ obj.F = "Ser2"
  /\ vis.text = <<Child(nZz, UnkObj), Child(nA, UNum(1))>>
  /\ pre.val[1] = 7
  /\ obj.val[1] = 1
  /\ ~ vis.v.failed

\* the values of the children named n in an object text, in text order
ValuesOf(n, kids) ==
  LET own == SelectSeq(kids, LAMBDA kid : kid[1] = TStr(n))
  IN  [i \in 1..Len(own) |-> Tail(own[i])]

\* the record an instance made by `new F()` becomes when the texts of units
\* are read into it one after the other
RECURSIVE Populated(_, _, _)
Populated(F, val, units) ==
  IF units = <<>> THEN val
  ELSE Populated(F, visit(F, val, Trav(Reader(Head(units)), ti)).val, Tail(units))

\* the position of the first call on the visitor made for a shape of kind k
FirstVisit(v, k) == CHOOSE i \in 1..Len(v.log) :
                      /\ v.log[i] = Ev("visit", k, FALSE)
                      /\ \A j \in 1..(i - 1) : v.log[j] # Ev("visit", k, FALSE)

\* C5: the member sub of Ser2P is a Ser1* that holds nothing before the
\* traversal.  Reading texts whose sub is null leaves it holding nothing and
\* makes no instance; a read that succeeds on a text with a sub that is not
\* null makes exactly one instance, which holds what the sub texts give a new
\* Ser1; writing the record makes no instance and writes for sub one null,
\* by one visit_null call and no other call.
C5_NullableReference ==
  (obj.F = "Ser2P" /\ pre.F = "Ser2P" /\ pre.val[2] = <<>>) =>
    /\ vis.allocs <= 1
    /\ (op = "parse" /\ \A i \in 1..Len(ValuesOf(nSub, vis.text)) :
                          ValuesOf(nSub, vis.text)[i] = UNull) =>
         (obj.val[2] = <<>> /\ vis.allocs = 0)
    /\ op = "reparse" => (obj.val[2] = <<>> /\ vis.allocs = 0 /\ ~ vis.v.failed)
    /\ (op = "parse" /\ ~ vis.v.failed
          /\ \E i \in 1..Len(ValuesOf(nSub, vis.text)) :
               ValuesOf(nSub, vis.text)[i] # UNull) =>
         /\ vis.allocs = 1
         /\ obj.val[2] = <<Populated("Ser1", Fresh("Ser1"),
                                     SelectSeq(ValuesOf(nSub, vis.text),
                                               LAMBDA u : u # UNull))>>
    /\ op = "to_json" =>
         /\ obj.val[2] = <<>>
         /\ vis.allocs = 0
         /\ vis.v.out = <<TStart(vt_object), TStr(nA), TNum(pre.val[1]),
                          TStr(nSub), TNull, TEnd(vt_object)>>
         /\ Len(Calls(vis.v, "visit_null")) = 1
         /\ SubSeq(vis.v.log, FirstVisit(vis.v, "ptr"), FirstVisit(vis.v, "ptr") + 2)
              = <<Ev("visit", "ptr", FALSE), Ev("visit_null", vt_null, FALSE),
                  Ev("return", "ptr", FALSE)>>

\* {"sub": null, "sub": {"x":2}} read into a Ser2P that holds no Ser1: after
\* the null nothing is held, the object makes the one instance and x is 2
C5_Witness ==
  /\ op = "parse"
  /\ obj.F = "Ser2P"
  /\ pre.val[2] = <<>>
  /\ vis.text = <<Child(nSub, UNull), Child(nSub, UObj(<<Child(nX, UNum(2))>>))>>
  /\ vis.allocs = 1
  /\ obj.val[2] = <<<<2>>>>

\* the nesting of visit<> calls at position p of a call record: a call's
\* own calls on the visitor lie between its "visit" and its "return" at the
\* level of its "visit"
Level(L, p) == Cardinality({q \in 1..p : L[q].c = "visit"})
                 - Cardinality({q \in 1..p : L[q].c = "return"})

ReturnOf(L, i) == CHOOSE j \in (i + 1)..Len(L) :
                    /\ L[j].c = "return"
                    /\ Level(L, j) = Level(L, i) - 1
                    /\ \A q \in (i + 1)..(j - 1) :
                         ~ (L[q].c = "return" /\ Level(L, q) = Level(L, i) - 1)

Own(L, i) == {p \in (i + 1)..(ReturnOf(L, i) - 1) :
                L[p].c \notin {"visit", "return"} /\ Level(L, p) = Level(L, i)}

CompositeKinds == {"rec", "map", "vec"}

KindVt(k) == IF k = "vec" THEN vt_array ELSE vt_object

\* produce_start / produce_end calls in sequence open and close like brackets
RECURSIVE Nested(_, _)
Nested(evs, open) ==
  IF evs = <<>> THEN open = <<>>
  ELSE IF Head(evs).c = "produce_start" THEN Nested(Tail(evs), <<Head(evs).k>> \o open)
  ELSE /\ open # <<>>
       /\ Head(open) = Head(evs).k
       /\ Nested(Tail(evs), Tail(open))

Produces(L) == SelectSeq(L, LAMBDA e : e.c \in {"produce_start", "produce_end"})

\* C6: every visit of a record, a map or a vector calls consume once, first,
\* with its kind.  When consume returned true the visit makes no
\* produce_start and no produce_end; when it returned false the visit makes
\* one produce_start of the kind right after, one produce_end of the same
\* kind as its last call, and the children in between.  Over a whole
\* traversal the produce_start / produce_end calls nest like brackets, and a
\* reading visitor receives none.
C6_ConsumeOrProduce ==
  op \in {"to_json", "parse", "reparse"} =>
    LET L == vis.v.log IN
    /\ \A i \in 1..Len(L) :
         (L[i].c = "visit" /\ L[i].k \in CompositeKinds) =>
           LET j == ReturnOf(L, i)
               own == Own(L, i)
               k == KindVt(L[i].k)
           IN  /\ L[i + 1].c = "consume" /\ L[i + 1].k = k
               /\ Cardinality({p \in own : L[p].c = "consume"}) = 1
               /\ L[i + 1].r =>
                    \A p \in own : L[p].c \notin {"produce_start", "produce_end"}
               /\ ~ L[i + 1].r =>
                    /\ L[i + 2] = Ev("produce_start", k, FALSE)
                    /\ L[j - 1] = Ev("produce_end", k, FALSE)
                    /\ {p \in own : L[p].c = "produce_start"} = {i + 2}
                    /\ {p \in own : L[p].c = "produce_end"} = {j - 1}
    /\ Nested(Produces(L), <<>>)
    /\ vis.v.mode = "read" => Produces(L) = <<>>
    /\ vis.v.mode = "write" =>
         \A p \in 1..Len(L) : L[p].c = "consume" => ~ L[p].r

\* a record holding a vector of two has been written: an array inside an object
C6_Witness ==
  /\ op = "to_json"
  /\ obj.F = "SerVI"
  /\ Len(pre.val[1]) = 2
  /\ Produces(vis.v.log) = <<Ev("produce_start", vt_object, FALSE),
                             Ev("produce_start", vt_array, FALSE),
                             Ev("produce_end", vt_array, FALSE),
                             Ev("produce_end", vt_object, FALSE)>>

\* C7: a value written by a writing visitor and the written text read into a
\* newly constructed value of the same type: the read succeeds, reads the
\* whole text, and every member of the new value equals the member written.
C7_RoundTrip ==
  op = "reparse" =>
    /\ ~ vis.v.failed
    /\ ~ vis.crash
    /\ vis.v.inp = Json(obj.F, pre.val)
    /\ vis.v.pos = Len(vis.v.inp) + 1
    /\ obj.val = pre.val

\* a Ser2P with a = 7 that holds a Ser1 with x = 7 came back from its text
C7_Witness ==
  /\ op = "reparse"
  /\ obj.F = "Ser2P"
  /\ pre.val = <<7, <<<<7>>>>>>
  /\ obj.val = <<7, <<<<7>>>>>>
  /\ Len(vis.v.inp) = 9

\* C8: a registry whose built flag is set is never changed again: no step of
\* a writing or a reading traversal, whatever names the text holds, changes
\* its ordered members, its name index or its flag.
C8_RegistryImmutable ==
  [][\A T \in RecTypes : is_init(ti[T]) = 1 => ti'[T] = ti[T]]_vars

\* a text of two children under the undeclared name zz was read into a Ser2
\* whose registry was built before: the registry is the declared one
C8_Witness ==
  /\ op = "parse"
  /\ obj.F = "Ser2"
  /\ "Ser2" \in vis.before
  /\ vis.text = <<Child(nZz, UNum(1)), Child(nZz, UnkArr)>>
  /\ ~ vis.v.failed
  /\ IsComplete(ti["Ser2"].fields, ti["Ser2"].m_named_fields, "Ser2")

\* the first child of an object text at which reading it into val fails
FirstFailing(F, val, kids) ==
  CHOOSE k \in 1..Len(kids) :
    /\ ReadInto(F, val, SubSeq(kids, 1, k)).st.v.failed
    /\ \A j \in 1..(k - 1) : ~ ReadInto(F, val, SubSeq(kids, 1, j)).st.v.failed

\* the members of F a child of an object text is stored to
SlotsOf(F, kid) ==
  {MacroArgs(F)[i] : i \in {i \in 1..Len(MacroArgs(F)) : kid[1] = TStr(DeclaredNames(F)[i])}}

\* C9: a read of an object text into a record that fails at the k-th child
\* restores nothing: every member other than the one the k-th child names
\* holds what reading the children 1..k-1 alone gives it, and a member that
\* none of the children 1..k names holds what it held before the read.
C9_NoRollback ==
  (op = "parse" /\ Kind(obj.F) = "rec" /\ vis.v.failed /\ vis.text # <<>>) =>
    LET k == FirstFailing(obj.F, pre.val, vis.text)
        sofar == ReadInto(obj.F, pre.val, SubSeq(vis.text, 1, k - 1))
    IN  /\ ~ sofar.st.v.failed
        /\ \A s \in 1..Len(Layout(obj.F)) :
             /\ s \notin SlotsOf(obj.F, vis.text[k]) => obj.val[s] = sofar.val[s]
             /\ (\A j \in 1..k : s \notin SlotsOf(obj.F, vis.text[j])) =>
                  obj.val[s] = pre.val[s]

\* {"a": 1, "zz": <unreadable>} read into a Ser2 with a = 7, sub.x = 7: the
\* read failed at the second child, a is 1 and sub.x is still 7
C9_Witness ==
  /\ op = "parse"
  /\ obj.F = "Ser2"
  /\ vis.text = <<Child(nA, UNum(1)), Child(nZz, UBad)>>
  /\ vis.v.failed
  /\ pre.val = <<7, <<7>>>>
  /\ obj.val = <<1, <<7>>>>

\* the children of an object text that are stored to member s of F
ChildrenOf(F, s, kids) == SelectSeq(kids, LAMBDA kid : s \in SlotsOf(F, kid))

\* the shapes the callback of the outermost record went into, in call order
RECURSIVE Routes(_, _)
Routes(L, p) ==
  IF p > Len(L) THEN <<>>
  ELSE (IF L[p].c = "visit" /\ Level(L, p) = 2 THEN <<L[p].k>> ELSE <<>>)
         \o Routes(L, p + 1)

\* the shape the declaration gives the child: its member's, or the discard sink
RouteOf(F, kid) ==
  IF IsDeclared(F, kid)
    THEN Kind(Layout(F)[CHOOSE s \in SlotsOf(F, kid) : TRUE])
    ELSE "nil"

LastOf(q) == q[Len(q)]

\* C10: reading an object text into a record, a member that no child names
\* keeps its value; when the read succeeds each member holds what its own
\* children alone give it (an int member: the number of the last child that
\* names it), so the order of the children of different members does not
\* matter, and the callback went, child by child, into the shape of the
\* member the child names, or into the discard sink when no member has that
\* name.
C10_NameRouting ==
  (op = "parse" /\ Kind(obj.F) = "rec") =>
    /\ \A s \in 1..Len(Layout(obj.F)) :
         ChildrenOf(obj.F, s, vis.text) = <<>> => obj.val[s] = pre.val[s]
    /\ ~ vis.v.failed =>
         /\ \A s \in 1..Len(Layout(obj.F)) :
              obj.val[s] = ReadInto(obj.F, pre.val, ChildrenOf(obj.F, s, vis.text)).val[s]
         /\ \A s \in 1..Len(Layout(obj.F)) :
              (Kind(Layout(obj.F)[s]) = "int" /\ ChildrenOf(obj.F, s, vis.text) # <<>>) =>
                obj.val[s] = LastOf(ChildrenOf(obj.F, s, vis.text))[2].i
         /\ Len(vis.text) = 2 =>
              obj.val = ReadInto(obj.F, pre.val, <<vis.text[2], vis.text[1]>>).val
                \/ SlotsOf(obj.F, vis.text[1]) = SlotsOf(obj.F, vis.text[2])
         /\ Routes(vis.v.log, 1) = [i \in 1..Len(vis.text) |-> RouteOf(obj.F, vis.text[i])]

\* {"sub": {"x":2}, "a": 1} read into a Ser2 with a = 7, sub.x = 7: the
\* children come in the other order than the members are declared
C10_Witness ==
  /\ op = "parse"
  /\ obj.F = "Ser2"
  /\ vis.text = <<Child(nSub, UObj(<<Child(nX, UNum(2))>>)), Child(nA, UNum(1))>>
  /\ pre.val = <<7, <<7>>>>
  /\ obj.val = <<1, <<2>>>>
  /\ Routes(vis.v.log, 1) = <<"rec", "int">>

\* the number of data units in a text: each scalar and each composite counts
\* once, the names of an object's children do not count
RECURSIVE CountUnits(_, _, _)
CountUnits(toks, open, key) ==
  IF toks = <<>> THEN 0
  ELSE IF Head(toks).t = "end"
    THEN CountUnits(Tail(toks), Tail(open),
                    Tail(open) # <<>> /\ Head(Tail(open)) = vt_object)
  ELSE IF key THEN CountUnits(Tail(toks), open, FALSE)
  ELSE IF Head(toks).t = "start"
    THEN 1 + CountUnits(Tail(toks), <<Head(toks).k>> \o open, Head(toks).k = vt_object)
  ELSE 1 + CountUnits(Tail(toks), open, open # <<>> /\ Head(open) = vt_object)

Composites(toks) == Len(SelectSeq(toks, LAMBDA t : t.t = "start"))

LeafCalls(v) ==
  Len(SelectSeq(v.log, LAMBDA e : e.c \in {"visit_null", "visit_bool", "visit_int",
                                            "visit_double", "visit_string"}))

\* the text that follows child i of an object text, up to the object's end
After(kids, i) == Concat(SubSeq(kids, i + 1, Len(kids))) \o <<TEnd(vt_object)>>

\* visit<niltarget> started at the value of child i of an object text
Sink(kids, i) ==
  visit("niltarget", <<>>, Trav(Reader(Tail(kids[i]) \o After(kids, i)), ti))

\* C11: visit<niltarget> started at the value of a child no member names,
\* a scalar, an object or an array, reads that value and nothing more: the
\* next unit of the visitor is what follows the value, every unit inside the
\* value had one visit<niltarget> of its own, a scalar by one leaf call and a
\* composite by one consume, and nothing is stored.  A record read from a
\* text of such children alone is unchanged.
C11_SinkDrainsOneUnit ==
  (op = "parse" /\ Kind(obj.F) = "rec") =>
    /\ \A i \in 1..Len(vis.text) :
         (~ IsDeclared(obj.F, vis.text[i]) /\ Readable(vis.text[i])) =>
           LET u == Tail(vis.text[i])
               r == Sink(vis.text, i)
           IN  /\ ~ r.st.v.failed
               /\ r.st.v.pos = Len(u) + 1
               /\ Cur(r.st.v) = Head(After(vis.text, i))
               /\ r.val = <<>>
               /\ r.st.allocs = 0
               /\ Len(SelectSeq(r.st.v.log, LAMBDA e : e = Ev("visit", "nil", FALSE)))
                    = CountUnits(u, <<>>, FALSE)
               /\ LeafCalls(r.st.v) = CountUnits(u, <<>>, FALSE) - Composites(u)
               /\ Len(Calls(r.st.v, "consume")) = Composites(u)
    /\ (Known(obj.F, vis.text) = <<>> /\ \A i \in 1..Len(vis.text) : Readable(vis.text[i])) =>
         /\ obj.val = pre.val
         /\ vis.v.pos = Len(vis.v.inp) + 1
         /\ Len(SelectSeq(vis.v.log, LAMBDA e : e = Ev("visit", "nil", FALSE)))
              = CountUnits(Concat([i \in 1..Len(vis.text) |-> Tail(vis.text[i])]), <<>>, FALSE)

\* {"zz": [{"sub":null}, "a", []], "a": 2} read into a Ser2: five units were
\* discarded and the child a that follows was read
C11_Witness ==
  /\ op = "parse"
  /\ obj.F = "Ser2"
  /\ vis.text = <<Child(nZz, UnkArr), Child(nA, UNum(2))>>
  /\ Len(SelectSeq(vis.v.log, LAMBDA e : e = Ev("visit", "nil", FALSE))) = 5
  /\ obj.val[1] = 2
  /\ ~ vis.v.failed

\* the numbers of the array items of the children named n, in text order
ItemsOf(n, kids) ==
  SelectSeq(Concat(ValuesOf(n, kids)), LAMBDA t : t.t = "num")

\* C12: reading array texts of m items in all into the vector member ints of
\* a SerVI that holds n elements: the first n elements stay as they were,
\* whatever happens; when the read succeeds the vector has n + m elements
\* and the m new ones are the items in text order.
C12_VectorAppends ==
  (op = "parse" /\ obj.F = "SerVI") =>
    LET old == pre.val[1]
        new == obj.val[1]
        items == ItemsOf(nInts, vis.text)
    IN  /\ Len(new) >= Len(old)
        /\ SubSeq(new, 1, Len(old)) = old
        /\ ~ vis.v.failed =>
             /\ Len(new) = Len(old) + Len(items)
             /\ \A j \in 1..Len(items) : new[Len(old) + j] = items[j].i

\* {"ints": [1, 2]} read into a SerVI whose ints were 7, 0: now 7, 0, 1, 2
C12_Witness ==
  /\ op = "parse"
  /\ obj.F = "SerVI"
  /\ pre.val = <<<<7, 0>>>>
  /\ vis.text = <<Child(nInts, UArr(<<UNum(1), UNum(2)>>))>>
  /\ obj.val = <<<<7, 0, 1, 2>>>>

\* C13: the member sub of Ser2P is a Ser1*.  When it holds a Ser1 before a
\* traversal, the traversal makes no instance and sub holds a Ser1 after
\* it, whatever the text gives for sub (null included): every visit of the
\* pointer goes on into the Ser1 it holds, which keeps its x unless a sub
\* child gives an x.  In any traversal there are no more instances made than
\* visits of the pointer, and one is made only by a read, into a sub that
\* held nothing, of a sub child that is not null.
C13_HeldReferenceKept ==
  (obj.F = "Ser2P" /\ pre.F = "Ser2P" /\ op \in {"parse", "to_json"}) =>
    LET L == vis.v.log
        subs == ValuesOf(nSub, vis.text)
    IN  /\ vis.allocs <= Len(SelectSeq(L, LAMBDA e : e = Ev("visit", "ptr", FALSE)))
        /\ vis.allocs > 0 =>
             /\ pre.val[2] = <<>>
             /\ op = "parse"
             /\ \E i \in 1..Len(subs) : subs[i] # UNull
        /\ pre.val[2] # <<>> =>
             /\ vis.allocs = 0
             /\ obj.val[2] # <<>>
             /\ \A i \in 1..Len(L) :
                  L[i] = Ev("visit", "ptr", FALSE) => L[i + 1] = Ev("visit", "rec", FALSE)
             /\ (\A i \in 1..Len(subs) : Len(subs[i]) < 2 \/ subs[i][2] # TStr(nX)) =>
                  obj.val[2] = pre.val[2]
             /\ op = "to_json" => obj.val = pre.val

\* {"sub": {}, "sub": null} read into a Ser2P whose sub holds a Ser1 with
\* x = 7: no instance was made and sub still holds the Ser1 with x = 7
C13_Witness ==
  /\ op = "parse"
  /\ obj.F = "Ser2P"
  /\ pre.val = <<0, <<<<7>>>>>>
  /\ vis.text = <<Child(nSub, UObj(<<>>)), Child(nSub, UNull)>>
  /\ vis.allocs = 0
  /\ obj.val = <<0, <<<<7>>>>>>

\* C14: a traversal with a writing visitor (peek gives vt_none, consume
\* gives false) leaves the value it walks as it was: a pointer that held
\* nothing holds nothing and no instance is made, vectors and maps keep their
\* elements and entries; every consume returned false and no callback ran:
\* nothing went to the discard sink and each visit<> call wrote its own unit
\* (a pointer that holds a value shares the unit of the value it holds).
C14_WriteLeavesValue ==
  op = "to_json" =>
    LET L == vis.v.log IN
    /\ obj.F = pre.F
    /\ obj.val = pre.val
    /\ vis.allocs = 0
    /\ ~ vis.crash
    /\ vis.v.out = Json(obj.F, pre.val)
    /\ \A p \in 1..Len(L) : L[p].c = "consume" => ~ L[p].r
    /\ \A p \in 1..Len(L) : L[p] # Ev("visit", "nil", FALSE)
    /\ Len(Calls(vis.v, "visit"))
         = CountUnits(vis.v.out, <<>>, FALSE)
             + Cardinality({p \in 1..(Len(L) - 1) :
                              /\ L[p] = Ev("visit", "ptr", FALSE)
                              /\ L[p + 1].c = "visit"})

\* a Ser2P with a = 7 whose sub holds nothing has been written: it still
\* holds nothing and no Ser1 was made
C14_Witness ==
  /\ op = "to_json"
  /\ obj.F = "Ser2P"
  /\ pre.val = <<7, <<>>>>
  /\ obj.val = <<7, <<>>>>
  /\ vis.allocs = 0
  /\ Len(vis.v.out) = 6

\* C15: in a registry whose built flag is set no two members of the ordered
\* list have the same name, the name index has size() entries, and looking
\* up the name of the member at position i gives the member at position i.
C15_IndexMatchesList ==
  \A T \in RecTypes :
    is_init(ti[T]) = 1 =>
      LET r == ti[T] IN
      /\ size(r) = Len(MacroArgs(T))
      /\ \A i, j \in 1..size(r) : r.fields[i].name = r.fields[j].name => i = j
      /\ Cardinality(DOMAIN r.m_named_fields) = size(r)
      /\ \A i \in 1..size(r) :
           /\ has(r, r.fields[i].name)
           /\ r.m_named_fields[r.fields[i].name] = r.fields[i]

\* the two-member registry of Ser2 is built and a thread has returned with it
\* while another thread is adding the members of Ser2P
C15_Witness ==
  /\ is_init(ti["Ser2"]) = 1
  /\ size(ti["Ser2"]) = 2
  /\ \E t1, t2 \in Threads :
       /\ Returned(t1) /\ ty[t1] = "Ser2"
       /\ ty[t2] = "Ser2P" /\ pc[t2] = "index"

\* the positions of a thread inside type_info::init, behind the lock_guard
InsideInit == {"recheck", "names", "expand", "index", "store", "unlock"}

\* each init_mutex is held by a thread inside init for that type, and by no other
LockDiscipline ==
  /\ \A T \in RecTypes :
       init_mutex[T] # 0 =>
         (pc[init_mutex[T]] \in InsideInit /\ ty[init_mutex[T]] = T)
  /\ \A t \in Threads :
       pc[t] \in InsideInit =>
         (init_mutex[ty[t]] = t /\ \A T \in RecTypes \ {ty[t]} : init_mutex[T] # t)

\* C16: a thread inside init holds the lock of the type it builds and no
\* other lock, and no lock is held outside init; when the scheduler lets
\* every thread that can take a step take one, each thread that has called
\* rpoco_type_info_get returns from it, and the registry it returns with is
\* built.
C16_AcquisitionLive ==
  /\ [] LockDiscipline
  /\ \A t \in Threads :
       (pc[t] # "idle") ~> (pc[t] = "idle" /\ Returned(t) /\ is_init(ti[ty[t]]) = 1)

\* a thread waits for the lock of Ser2 while another thread, inside init,
\* is adding the members of Ser2
C16_Witness ==
  \E t1, t2 \in Threads :
    /\ t1 # t2
    /\ ty[t1] = "Ser2" /\ ty[t2] = "Ser2"
    /\ pc[t1] = "lock"
    /\ init_mutex["Ser2"] = t2
    /\ pc[t2] = "index"

\* the largest of a set of naturals, 0 for the empty set
MaxOf(S) == IF S = {} THEN 0 ELSE CHOOSE m \in S : \A n \in S : n <= m

\* the nesting of a value: a scalar is 1 deep, a record, vector or map one
\* deeper than its deepest part, a pointer that holds a value one deeper
\* than the value
RECURSIVE ValDepth(_, _)
ValDepth(F, val) ==
  CASE Kind(F) = "int" -> 1
    [] Kind(F) = "rec" ->
         1 + MaxOf({ValDepth(Layout(F)[s], val[s]) : s \in 1..Len(Layout(F))})
    [] Kind(F) = "ptr" -> IF val = <<>> THEN 1 ELSE 1 + ValDepth(Elem(F), val[1])
    [] Kind(F) = "vec" -> 1 + MaxOf({ValDepth(Elem(F), val[i]) : i \in 1..Len(val)})
    [] Kind(F) = "map" -> 1 + MaxOf({ValDepth(Elem(F), val[k]) : k \in DOMAIN val})

\* the nesting of a text: a unit is one deeper than the composites open around it
InDepth(toks) ==
  MaxOf({1 + Cardinality({q \in 1..(p - 1) : toks[q].t = "start"})
           - Cardinality({q \in 1..(p - 1) : toks[q].t = "end"})
         : p \in {p \in 1..Len(toks) : toks[p].t # "end"}})

\* the pointers one can go through, one inside the other, in a value of shape F
RECURSIVE RefLevels(_)
RefLevels(F) ==
  CASE Kind(F) = "int" -> 0
    [] Kind(F) = "rec" -> MaxOf({RefLevels(Layout(F)[s]) : s \in 1..Len(Layout(F))})
    [] Kind(F) = "ptr" -> 1 + RefLevels(Elem(F))
    [] Kind(F) \in {"vec", "map"} -> RefLevels(Elem(F))

\* the outermost visit<> call returned last, after every other call
Completed(F, L) ==
  /\ Len(L) >= 2
  /\ L[1] = Ev("visit", Kind(F), FALSE)
  /\ L[Len(L)] = Ev("return", Kind(F), FALSE)
  /\ Level(L, Len(L)) = 0
  /\ \A p \in 1..(Len(L) - 1) : Level(L, p) >= 1

====
